---- MODULE Spec2Model ----
(***************************************************************************)
(* ResourceScout: the request router / response assembler of service.py,   *)
(* the generation backend wrapper of core/llm.py and the retrieval layer   *)
(* of core/retrieval.py.                                                   *)
(*                                                                         *)
(* Representation of Python values                                         *)
(*   - a str is a sequence of tokens; a token is a TLA+ string standing    *)
(*     for one or more characters, and the str is their concatenation.     *)
(*     Tokens are chosen so that two different token sequences never spell *)
(*     the same text, hence equality of sequences is equality of strs.     *)
(*   - an optional str (a JSON value that is a string or null) is a record *)
(*     [kind, s]: Str(s) or None.                                          *)
(*     A character outside ASCII is the token "U+" and its code point.     *)
(*   - the value json.loads returns is a record [kind, f]: a dict with the *)
(*     key/value function f, a non-empty list, or None.                    *)
(***************************************************************************)
EXTENDS Integers, Sequences, FiniteSets, TLC

\* ------------------------------------------------------------------ bounds
MaxRequests == 1
TickStep == 1800

\* ---------------------------------------------------------- program constants
CMD_SUMMARIZE == <<"Summarize", " ", "the", " ", "uploaded", " ", "documents.">>
CMD_QUIZ == <<"Generate", " ", "a", " ", "quiz", " ", "based", " ", "on", " ", "the", " ", "context.">>
SEARCH_TAG == <<"SEARCH_QUERY:">>
BOLD_SEARCH_TAG == <<"**", "SEARCH_QUERY:", "**">>
DEFAULT_TOPIC == <<"Computer", " ", "Science", " ", "Core">>
CHAT_GREETING == <<"Hello!">>
API_KEY_MISSING == <<"API", " ", "Key", " ", "missing.">>
GENERATION_FAILED == <<"Generation", " ", "failed:", " ">>
KHAN_URL == <<"https://www.khanacademy.org/search?page_search_query=">>
SCHOLAR_URL == <<"https://scholar.google.com/scholar?q=">>
CACHE_TTL == 3600
retries == 3
BACKOFF_UNIT == 5
max_results == 2

\* ------------------------------------------------------------ Python values
None == [kind |-> "none", s |-> <<>>]
Str(s) == [kind |-> "str", s |-> s]
\* Python truthiness of an optional str: None and "" are falsy.
Truthy(v) == v.kind = "str" /\ v.s # <<>>

NoFields == [k \in {} |-> None]
NoData == [kind |-> "none", f |-> NoFields]
Dict(f) == [kind |-> "dict", f |-> f]
NonEmptyList == [kind |-> "list", f |-> NoFields]
\* `not data` (service.py:111): None and the empty dict are falsy.
DataFalsy(d) == d.kind = "none" \/ (d.kind = "dict" /\ DOMAIN d.f = {})
\* dict.get(key, default): the default is used only when the key is missing.
Get(d, key, default) == IF key \in DOMAIN d.f THEN d.f[key] ELSE default

ResourceResult(explanation, category, book, videos, articles) ==
    [explanation |-> explanation, category |-> category, book |-> book,
     videos |-> videos, articles |-> articles]

\* ------------------------------------------------------------- str helpers
Whitespace == {" ", "\n"}
RECURSIVE LStrip(_)
LStrip(s) == IF s # <<>> /\ Head(s) \in Whitespace THEN LStrip(Tail(s)) ELSE s
RECURSIVE RStrip(_)
RStrip(s) ==
    IF s # <<>> /\ s[Len(s)] \in Whitespace THEN RStrip(SubSeq(s, 1, Len(s) - 1)) ELSE s
Strip(s) == RStrip(LStrip(s))

StartsWith(s, p) == Len(p) <= Len(s) /\ SubSeq(s, 1, Len(p)) = p
\* index of the first occurrence of p in s, 0 when there is none
Find(s, p) ==
    LET hits == {i \in 1..(Len(s) - Len(p) + 1) : SubSeq(s, i, i + Len(p) - 1) = p}
    IN IF hits = {} THEN 0 ELSE CHOOSE i \in hits : \A j \in hits : i <= j
Contains(s, p) == p = <<>> \/ Find(s, p) # 0
ContainsToken(s, t) == \E i \in 1..Len(s) : s[i] = t

\* str.replace(old, new): every non-overlapping occurrence, left to right
RECURSIVE Replace(_, _, _)
Replace(s, old, new) ==
    IF s = <<>> THEN <<>>
    ELSE IF StartsWith(s, old) THEN new \o Replace(SubSeq(s, Len(old) + 1, Len(s)), old, new)
    ELSE <<Head(s)>> \o Replace(Tail(s), old, new)

\* str.split(sep): the list of the pieces between the occurrences of sep
RECURSIVE Split(_, _)
Split(s, sep) ==
    LET i == Find(s, sep)
    IN IF i = 0 THEN <<s>>
       ELSE <<SubSeq(s, 1, i - 1)>> \o Split(SubSeq(s, i + Len(sep), Len(s)), sep)

\* urllib.parse.quote, token by token: letters, digits and "_.-~/" are kept,
\* every other character becomes %XX of its UTF-8 bytes.
QuoteToken(t) ==
    CASE t = " " -> "%20"
      [] t = "\n" -> "%0A"
      [] t = "**" -> "%2A%2A"
      [] t = "SEARCH_QUERY:" -> "SEARCH_QUERY%3A"
      [] t = "failed:" -> "failed%3A"
      [] t = "Hello!" -> "Hello%21"
      [] t = "U+00E9" -> "%C3%A9"
      [] t = "U+4F60" -> "%E4%BD%A0"
      [] t = "U+597D" -> "%E5%A5%BD"
      [] t = "U+1F4D6" -> "%F0%9F%93%96"
      [] t = "U+1F393" -> "%F0%9F%8E%93"
      [] t = "'" -> "%27"
      [] t = "Papers:" -> "Papers%3A"
      [] OTHER -> t
Quote(s) == [i \in 1..Len(s) |-> QuoteToken(s[i])]

\* ------------------------------------------------- core/retrieval.py
\* Tokens that hold a non-ASCII character.
NonAsciiTokens == {"U+00E9", "U+4F60", "U+597D", "U+1F4D6", "U+1F393"}
\* text.encode('ascii') succeeds iff every character is ASCII.
\* mutant: every title passes the filter
is_english_always(text) == TRUE
is_english(text) == \A i \in 1..Len(text) : text[i] \notin NonAsciiTokens

\* What the video provider hands back for one request: a failure, or a list
\* of at most `n` entries (the provider truncates to the max_results it is
\* given). An entry without thumbnails makes r['thumbnails'][0] fail.
VideoItems ==
    { [id |-> "v1", title |-> <<"Graph", " ", "Theory">>, thumbnails |-> <<"t1.jpg">>],
      [id |-> "v2", title |-> <<"Broken">>, thumbnails |-> <<>>] }
YoutubeSearch(n) ==
    {[ok |-> FALSE, items |-> <<>>]} \cup
    {[ok |-> TRUE, items |-> its] : its \in UNION {[1..k -> VideoItems] : k \in 0..n}}

Video(r) ==
    [url |-> <<"https://www.youtube.com/watch?v=", r.id>>, title |-> r.title,
     thumb |-> r.thumbnails[1]]
\* the for loop of search_youtube: entries are appended until one of them
\* raises; the exception is swallowed and what was collected is returned.
RECURSIVE CollectVideos(_)
CollectVideos(items) ==
    IF items = <<>> \/ Head(items).thumbnails = <<>> THEN <<>>
    ELSE <<Video(Head(items))>> \o CollectVideos(Tail(items))
search_youtube(out) == IF out.ok THEN CollectVideos(out.items) ELSE <<>>

\* What the web provider hands back for one request.
MaxWebResults == 2
WebItems ==
    { [title |-> <<"Graph", " ", "Theory">>, href |-> <<"https://a.example/graphs">>],
      [title |-> <<"Caf", "U+00E9">>, href |-> <<"https://b.example/cafe">>] }
Min(a, b) == IF a <= b THEN a ELSE b
DDGS(n) ==
    {[ok |-> FALSE, items |-> <<>>]} \cup
    {[ok |-> TRUE, items |-> its] :
        its \in UNION {[1..k -> WebItems] : k \in 0..Min(n, MaxWebResults)}}

RECURSIVE EnglishLinks(_)
EnglishLinks(items) ==
    IF items = <<>> THEN <<>>
    ELSE (IF is_english(Head(items).title)
          THEN <<[title |-> Head(items).title, link |-> Head(items).href]>>
          ELSE <<>>) \o EnglishLinks(Tail(items))
PHASE_A_MAX == 4
PHASE_B_MAX == 5
\* search_web after line 76: a is the provider's answer to the trusted-sites
\* request, b its answer to the unrestricted one (asked only when needed).
\* mutant: the trusted-sites phase keeps every result
PhaseA_unfiltered(a) ==
    IF a.ok THEN [i \in 1..Len(a.items) |->
                    [title |-> a.items[i].title, link |-> a.items[i].href]]
    ELSE <<>>
PhaseA(a) == IF a.ok THEN EnglishLinks(a.items) ELSE <<>>
PhaseB(b) == IF b.ok THEN EnglishLinks(b.items) ELSE <<>>
\* category.lower() at line 76 needs a str.
CategoryIsStr(category) == category.kind = "str"

\* ------------------------------------------------------ core/llm.py
IsQuotaError(e) == ContainsToken(e, "429") \/ ContainsToken(e, "Quota")
\* mutant: every wait lasts twice as long
WaitTime_doubled(att) == (att + 1) * BACKOFF_UNIT * 2
\* mutant: the wait computed from the loop index itself
WaitTime_fromZero(att) == att * BACKOFF_UNIT
WaitTime(att) == (att + 1) * BACKOFF_UNIT
\* mutant: the last attempt is retried as well
ShouldRetry_lastToo(e, att) == IsQuotaError(e) /\ att < retries
ShouldRetry(e, att) == IsQuotaError(e) /\ att < retries - 1

Missing == [kind |-> "missing", s |-> <<>>]
Keys == <<"category", "explanation", "book", "youtube_query", "web_query">>
MkDict(vals) ==
    Dict([k \in {Keys[i] : i \in {j \in 1..5 : vals[j] # Missing}} |->
            vals[CHOOSE i \in 1..5 : Keys[i] = k]])
Invalid == [kind |-> "invalid", f |-> NoFields]

\* What model.generate_content can do: raise an error with a message, or
\* return a response; .text of the text model is free text, .text of the JSON
\* model is a document that json.loads parses or rejects.
Errors ==
    { <<"429", " ", "Resource", " ", "exhausted">>, <<"Quota", " ", "exceeded">>,
      <<"500", " ", "Internal">> }
Texts ==
    { <<"Modules">>,
      <<"Modules", "\n", "SEARCH_QUERY:", " ", "Graph", " ", "Theory">>,
      <<"Modules", "\n", "**", "SEARCH_QUERY:", "**", " ", "U+00E9", "\n">> }
\* explanation, book, youtube_query, web_query of a document
OtherFields ==
    { <<Missing, Missing, Missing, Missing>>,
      <<None, None, None, None>>,
      <<Str(<<"Qubits">>), Str(<<"QM", " ", "101">>), Str(<<"quantum", " ", "U+00E9">>), None>>,
      <<Str(<<"Qubits">>), None, Str(<<>>), Str(<<"qubit", " ", "basics">>)>> }
Documents ==
    {Invalid, NoData, NonEmptyList} \cup
    { MkDict(<<c>> \o rest) :
        c \in {Missing, None, Str(<<"chat">>), Str(<<"science">>)}, rest \in OtherFields }
Raised(e) == [ok |-> FALSE, err |-> e, text |-> <<>>, json |-> NoData]
TextResponse(t) == [ok |-> TRUE, err |-> <<>>, text |-> t, json |-> NoData]
JsonResponse(d) == [ok |-> TRUE, err |-> <<>>, text |-> <<>>, json |-> d]
\* mutant: json.loads accepts every text
JsonValid_always(r) == TRUE
\* json.loads(res.text): the parsed value, or an exception (analyze_query
\* turns it into None).
JsonValid(r) == r.json.kind # "invalid"

\* ------------------------------------------------------ service.py
\* mutant: the fail-safe links are never synthesized
ensure_links_passthrough(topic, current_links) == current_links
\* mutant: the topic is put in the links without URL-escaping
ensure_links_unquoted(topic, current_links) ==
    IF current_links = <<>>
    THEN << [title |-> <<"U+1F4D6", " ", "Learn", " ", "'">> \o topic
                       \o <<"'", " ", "on", " ", "Khan", " ", "Academy">>,
             link |-> KHAN_URL \o topic],
            [title |-> <<"U+1F393", " ", "Academic", " ", "Papers:", " ">> \o topic,
             link |-> SCHOLAR_URL \o topic] >>
    ELSE current_links
\* ensure_links (service.py:44)
ensure_links(topic, current_links) ==
    IF current_links = <<>>
    THEN LET safe_topic == Quote(topic)
         IN << [title |-> <<"U+1F4D6", " ", "Learn", " ", "'">> \o topic
                            \o <<"'", " ", "on", " ", "Khan", " ", "Academy">>,
                link |-> KHAN_URL \o safe_topic],
               [title |-> <<"U+1F393", " ", "Academic", " ", "Papers:", " ">> \o topic,
                link |-> SCHOLAR_URL \o safe_topic] >>
    ELSE current_links

\* service.py:78-87: the explanation and the search topic of a summary
CleanResponse(full_response) == Replace(full_response, BOLD_SEARCH_TAG, SEARCH_TAG)
SummaryText(full_response) ==
    IF Contains(CleanResponse(full_response), SEARCH_TAG)
    THEN Strip(Split(CleanResponse(full_response), SEARCH_TAG)[1])
    ELSE full_response
\* mutant: the topic is everything after the first tag
SearchTopic_rest(full_response) ==
    IF Contains(CleanResponse(full_response), SEARCH_TAG)
    THEN LET clean == CleanResponse(full_response)
         IN Strip(SubSeq(clean, Find(clean, SEARCH_TAG) + 1, Len(clean)))
    ELSE DEFAULT_TOPIC
SearchTopic(full_response) ==
    IF Contains(CleanResponse(full_response), SEARCH_TAG)
    THEN Strip(Split(CleanResponse(full_response), SEARCH_TAG)[2])
    ELSE DEFAULT_TOPIC

\* -------------------------------------------------------------- state
VARIABLES
    pc,             \* where the request is: idle, generate_text, analyze_query,
                    \* backend, got_text, got_data, video_search, web_search,
                    \* assemble, done (a ResourceResult was returned), raised
    requests,       \* number of handle_request invocations so far
    handlers,       \* st.cache_resource of get_llm_handler: credentials with a handler
    videoCache,     \* st.cache_data of cached_video_search: {[key, value, age]}
    webCache,       \* st.cache_data of cached_web_search:   {[key, value, age]}
    query, api_key, \* arguments of the running handle_request
    routes,         \* branches of the router entered by this request, in order
    op,             \* generation operation in progress: "text" or "json"
    attempt,        \* loop index of _generate_with_retry
    waits,          \* time.sleep durations of the current generation operation
    answers,        \* what the backend answered to the current generation operation
    retried,        \* how _generate_with_retry ended: <<>>, or <<[kind, answer]>>
    text,           \* value generate_text returned
    data,           \* value analyze_query returned
    summary,        \* explanation the route will return
    vquery,         \* argument of the video search
    wquery, wcategory, \* arguments of the web search
    videos, raw_articles,
    result,         \* <<>> or <<the ResourceResult returned>>
    exc,            \* the exception that escaped handle_request, "" when none
    textCalls, structCalls,     \* calls of generate_text / analyze_query by this request
    videoSearches, webSearches              \* searches issued by this request

\* search_youtube and search_web called on their own (core/retrieval.py)
VARIABLES
    s_pc,           \* "idle", "phase_a", "phase_b", "returned", "raised"
    s_fn,           \* the function called: "search_youtube" or "search_web"
    s_category,     \* the category argument of search_web
    s_out,          \* <<>> or <<what the video provider answered>>
    s_a, s_b,       \* <<>> or <<what the web provider answered>>, per phase
    s_ret           \* the list returned
searchVars == <<s_pc, s_fn, s_category, s_out, s_a, s_b, s_ret>>
\* cached_video_search and cached_web_search called on their own (service.py:20-26)
VARIABLES
    c_now,          \* the time, in seconds
    c_vfetch,       \* latest run of search_youtube per query:
                    \* {[key, at, value, failed]}, failed when the provider raised
    c_wfetch,       \* latest run of search_web per (query, category), failed
                    \* when the last provider call of the run raised
    c_call          \* <<>> or <<the last call of a wrapper>>: its function, key
                    \* and time, whether the wrapped function ran, the value
                    \* returned, and the latest earlier run for the key
cacheLogVars == <<c_now, c_vfetch, c_wfetch, c_call>>
\* the session of main.py (main.py:33-41, 69-80)
VARIABLES
    context_cache,  \* st.session_state.context_cache
    file_list,      \* st.session_state.file_list
    uploads,        \* script runs with a file in the uploader so far
    u_last          \* <<>> or <<the last of these runs>>: the file's name, the
                    \* value of process_file if it was called, whether the
                    \* extraction failed, and the session before the run
                    \* with the name and outcome of the run before it
sessionVars == <<context_cache, file_list, uploads, u_last>>
\* the cut of a generated summary on its own (service.py:77-87)
VARIABLES
    p_pc,           \* "idle", "generated", "parsed"
    p_text,         \* full_response
    p_summary,      \* summary_text
    p_topic         \* search_topic
parseVars == <<p_pc, p_text, p_summary, p_topic>>
\* the prompts built from the session context (service.py:62-113, llm.py:81-104)
VARIABLES
    ctx_len,        \* len(context) of the call in progress
    prompt_site,    \* "" or where a prompt was built: "summarize", "quiz",
                    \* "fallback", "analyze_query"
    prompt_ctx      \* the slice of context inside that prompt: [start, stop]
promptVars == <<ctx_len, prompt_site, prompt_ctx>>
\* requests of independent sessions in one server process (service.py:20-41,
\* llm.py:42-55)
VARIABLES
    g_pc,           \* per session: "idle", "get_llm_handler", "routed", "web_search"
    g_req,          \* per session: the query and the key of its request
    genai_key       \* the key last given to genai.configure, <<>> before any
sharedVars == <<g_pc, g_req, genai_key>>
\* the generation work of one handle_request (service.py:61-113, llm.py:57-123)
VARIABLES
    b_pc,           \* "idle", "generate_text", "analyze_query", "backend", "done"
    b_query, b_key, \* arguments of the request
    b_op,           \* generation operation in progress: "text", "json" or ""
    b_attempt,      \* loop index of _generate_with_retry
    b_ops,          \* generation operations started by the request
    b_calls,        \* calls of generate_content made by the request
    b_waits,        \* time.sleep durations of the request, in order
    b_data,         \* value of analyze_query (service.py:107)
    b_text          \* value of the request's generate_text
budgetVars ==
    <<b_pc, b_query, b_key, b_op, b_attempt, b_ops, b_calls, b_waits, b_data, b_text>>
\* the conversation of main.py (main.py:33-34, 104-162)
VARIABLES
    messages,       \* st.session_state.messages: [role, content, data]
    m_pc,           \* "idle": the script waits for an event; "run": a script
                    \* run is on its way to the worker block; "handling":
                    \* the worker block is inside handle_request
    m_key,          \* the value of the key field (main.py:60)
    m_calls         \* the calls of handle_request so far, in order: the
                    \* index of the message handled (0 once Clear Memory has
                    \* removed the message) and the result once returned
chatVars == <<messages, m_pc, m_key, m_calls>>
unitVars == <<searchVars, cacheLogVars, sessionVars, parseVars, promptVars, sharedVars, budgetVars, chatVars>>

cacheVars == <<handlers, videoCache, webCache>>
retryVars == <<op, attempt, waits, answers, retried>>
localVars == <<text, data, summary, vquery, wquery, wcategory, videos, raw_articles>>
logVars == <<textCalls, structCalls, videoSearches, webSearches>>
routerVars == <<pc, requests, handlers, videoCache, webCache, query, api_key, routes,
                op, attempt, waits, answers, retried, text, data, summary, vquery, wquery,
                wcategory, videos, raw_articles, result, exc, textCalls,
                structCalls, videoSearches, webSearches>>
vars == <<routerVars, unitVars>>
requestVars == <<pc, requests, handlers, query, api_key, routes, retryVars, localVars,
                 result, exc, logVars>>
nonSharedRouterVars == <<pc, requests, query, api_key, routes, retryVars, localVars,
                         result, exc, logVars>>
\* what the calls of one part of the program leave alone
searchRest == <<routerVars, cacheLogVars, sessionVars, parseVars, promptVars, sharedVars, budgetVars, chatVars>>
cacheRest == <<requestVars, searchVars, sessionVars, parseVars, promptVars, sharedVars, budgetVars, chatVars>>
sessionRest == <<routerVars, searchVars, cacheLogVars, parseVars, promptVars, sharedVars, budgetVars, chatVars>>
parseRest == <<routerVars, searchVars, cacheLogVars, sessionVars, promptVars, sharedVars, budgetVars, chatVars>>
promptRest == <<routerVars, searchVars, cacheLogVars, sessionVars, parseVars, sharedVars, budgetVars, chatVars>>
sharedRest == <<nonSharedRouterVars, searchVars, cacheLogVars, sessionVars, parseVars, promptVars, budgetVars, chatVars>>
budgetRest == <<routerVars, searchVars, cacheLogVars, sessionVars, parseVars, promptVars, sharedVars, chatVars>>
\* Clear Memory empties the whole session, so chatRest leaves sessionVars out
chatRest ==
    <<routerVars, searchVars, cacheLogVars, parseVars, promptVars, sharedVars, budgetVars>>

\* ------------------------------------------------------------- inputs
Queries ==
    { CMD_SUMMARIZE, CMD_QUIZ,
      <<"summarize", " ", "the", " ", "uploaded", " ", "documents.">>,
      CMD_QUIZ \o <<" ">> }
ApiKeys == {<<>>, <<"key-1">>}

RouterInit ==
    /\ pc = "idle" /\ requests = 0
    /\ handlers = {} /\ videoCache = {} /\ webCache = {}
    /\ query = <<>> /\ api_key = <<>> /\ routes = <<>>
    /\ op = "" /\ attempt = 0 /\ waits = <<>> /\ answers = <<>> /\ retried = <<>>
    /\ text = <<>> /\ data = NoData /\ summary = None
    /\ vquery = <<>> /\ wquery = <<>> /\ wcategory = None
    /\ videos = <<>> /\ raw_articles = <<>>
    /\ result = <<>> /\ exc = ""
    /\ textCalls = 0 /\ structCalls = 0
    /\ videoSearches = <<>> /\ webSearches = <<>>
\* every part starts at rest: no call in progress, empty caches and logs, an
\* empty session
Init ==
    /\ RouterInit
    /\ s_pc = "idle" /\ s_fn = "" /\ s_category = None
    /\ s_out = <<>> /\ s_a = <<>> /\ s_b = <<>> /\ s_ret = <<>>
    /\ c_now = 0 /\ c_vfetch = {} /\ c_wfetch = {} /\ c_call = <<>>
    /\ context_cache = <<>> /\ file_list = <<>> /\ uploads = 0 /\ u_last = <<>>
    /\ p_pc = "idle" /\ p_text = <<>> /\ p_summary = <<>> /\ p_topic = <<>>
    /\ ctx_len = 0 /\ prompt_site = "" /\ prompt_ctx = [start |-> 0, stop |-> 0]
    /\ g_pc = [s \in {"s1", "s2"} |-> "idle"]
    /\ g_req = [s \in {"s1", "s2"} |-> [query |-> <<>>, key |-> <<>>]]
    /\ genai_key = <<>>
    /\ b_pc = "idle" /\ b_query = <<>> /\ b_key = <<>> /\ b_op = "" /\ b_attempt = 0
    /\ b_ops = 0 /\ b_calls = 0 /\ b_waits = <<>>
    /\ b_data = NoData /\ b_text = <<>>
    /\ messages = <<>> /\ m_pc = "idle" /\ m_key = <<>> /\ m_calls = <<>>

Last(s) == s[Len(s)]
ResetLocals ==
    /\ op' = "" /\ attempt' = 0 /\ waits' = <<>> /\ answers' = <<>> /\ retried' = <<>>
    /\ text' = <<>> /\ data' = NoData /\ summary' = None
    /\ vquery' = <<>> /\ wquery' = <<>> /\ wcategory' = None
    /\ videos' = <<>> /\ raw_articles' = <<>>
    /\ result' = <<>> /\ exc' = ""
    /\ textCalls' = 0 /\ structCalls' = 0
    /\ videoSearches' = <<>> /\ webSearches' = <<>>

\* ------------------------------------------------------------ actions
\* handle_request entry (service.py:41, 61, 102, 107): the handler is fetched
\* and the query is compared with the two sentinels.
\* mutant: the quiz sentinel is not recognised
FirstRoute_noQuiz(q) == IF q = CMD_SUMMARIZE THEN "summarize" ELSE "research"
FirstRoute(q) ==
    IF q = CMD_SUMMARIZE THEN "summarize" ELSE IF q = CMD_QUIZ THEN "quiz" ELSE "research"
HandleRequest(q, k) ==
    /\ pc = "idle" /\ requests < MaxRequests
    /\ requests' = requests + 1
    /\ query' = q /\ api_key' = k
    /\ handlers' = handlers \cup {k}
    /\ routes' = IF FirstRoute(q) = "research" THEN <<>> ELSE <<FirstRoute(q)>>
    /\ pc' = IF FirstRoute(q) = "research" THEN "analyze_query" ELSE "generate_text"
    /\ ResetLocals
    /\ UNCHANGED <<unitVars, videoCache, webCache>>

\* generate_text up to the call of _generate_with_retry (llm.py:117-120)
GenerateText ==
    /\ pc = "generate_text"
    /\ textCalls' = textCalls + 1
    /\ attempt' = 0 /\ waits' = <<>> /\ answers' = <<>> /\ retried' = <<>>
    /\ IF api_key = <<>>
       THEN /\ text' = API_KEY_MISSING /\ pc' = "got_text" /\ op' = ""
       ELSE /\ pc' = "backend" /\ op' = "text" /\ UNCHANGED text
    /\ UNCHANGED <<unitVars, requests, cacheVars, query, api_key, routes, data, summary, vquery,
                   wquery, wcategory, videos, raw_articles, result, exc, 
                   structCalls, videoSearches, webSearches>>

\* analyze_query up to the call of _generate_with_retry (llm.py:79-106)
AnalyzeQuery ==
    /\ pc = "analyze_query"
    /\ structCalls' = structCalls + 1
    /\ attempt' = 0 /\ waits' = <<>> /\ answers' = <<>> /\ retried' = <<>>
    /\ IF api_key = <<>>
       THEN /\ data' = NoData /\ pc' = "got_data" /\ op' = ""
       ELSE /\ pc' = "backend" /\ op' = "json" /\ UNCHANGED data
    /\ UNCHANGED <<unitVars, requests, cacheVars, query, api_key, routes, text, summary, vquery,
                   wquery, wcategory, videos, raw_articles, result, exc, 
                   textCalls, videoSearches, webSearches>>

\* One pass of the loop of _generate_with_retry in which generate_content
\* returns (llm.py:61), followed by the caller's use of the response
\* (llm.py:107, 121).
GenerateContentReturns(r) ==
    /\ pc = "backend"
    /\ answers' = Append(answers, r)
    /\ retried' = <<[kind |-> "return", answer |-> r]>>
    /\ IF op = "text"
       THEN /\ text' = r.text /\ pc' = "got_text" /\ UNCHANGED data
       ELSE /\ data' = (IF JsonValid(r) THEN r.json ELSE NoData)
            /\ pc' = "got_data" /\ UNCHANGED text
    /\ UNCHANGED <<unitVars, requests, cacheVars, query, api_key, routes, op, attempt, waits,
                   summary, vquery, wquery, wcategory, videos, raw_articles, result, exc,
                   textCalls, structCalls, videoSearches, webSearches>>

\* mutant: generate_text has no except clause, the error of the text model
\* leaves handle_request
GenerateContentRaises_uncaught(r) ==
    /\ pc = "backend"
    /\ answers' = Append(answers, r)
    /\ IF ShouldRetry(r.err, attempt)
       THEN /\ waits' = Append(waits, WaitTime(attempt))
            /\ attempt' = attempt + 1
            /\ UNCHANGED <<pc, retried, text, data, exc>>
       ELSE /\ retried' = <<[kind |-> "raise", answer |-> r]>>
            /\ UNCHANGED <<waits, attempt>>
            /\ IF op = "text"
               THEN /\ pc' = "raised" /\ exc' = "Exception" /\ UNCHANGED <<text, data>>
               ELSE /\ data' = NoData /\ pc' = "got_data" /\ UNCHANGED <<text, exc>>
    /\ UNCHANGED <<unitVars, requests, cacheVars, query, api_key, routes, op, summary, vquery,
                   wquery, wcategory, videos, raw_articles, result, textCalls,
                   structCalls, videoSearches, webSearches>>
\* One pass of the loop in which generate_content raises (llm.py:62-71): a
\* quota error with attempts left sleeps and loops, any other case re-raises
\* and the caller's except clause answers (llm.py:108-110, 122-123).
GenerateContentRaises(r) ==
    /\ pc = "backend"
    /\ answers' = Append(answers, r)
    /\ IF ShouldRetry(r.err, attempt)
       THEN /\ waits' = Append(waits, WaitTime(attempt))
            /\ attempt' = attempt + 1
            /\ UNCHANGED <<pc, retried, text, data>>
       ELSE /\ retried' = <<[kind |-> "raise", answer |-> r]>>
            /\ UNCHANGED <<waits, attempt>>
            /\ IF op = "text"
               THEN /\ text' = GENERATION_FAILED \o r.err /\ pc' = "got_text"
                    /\ UNCHANGED data
               ELSE /\ data' = NoData /\ pc' = "got_data" /\ UNCHANGED text
    /\ UNCHANGED <<unitVars, requests, cacheVars, query, api_key, routes, op, summary, vquery,
                   wquery, wcategory, videos, raw_articles, result, exc, textCalls,
                   structCalls, videoSearches, webSearches>>

ClearRetry == op' = "" /\ attempt' = 0 /\ waits' = <<>> /\ answers' = <<>> /\ retried' = <<>>

\* service.py:78-88: the summary is cut at the search tag
SummarizeParse ==
    /\ pc = "got_text" /\ routes # <<>> /\ Last(routes) = "summarize"
    /\ summary' = Str(SummaryText(text))
    /\ vquery' = SearchTopic(text)
    /\ wquery' = SearchTopic(text)
    /\ wcategory' = Str(<<"cs">>)
    /\ pc' = "video_search"
    /\ ClearRetry
    /\ UNCHANGED <<unitVars, requests, cacheVars, query, api_key, routes, text, data, videos,
                   raw_articles, result, exc, logVars>>

\* service.py:104
QuizReturn ==
    /\ pc = "got_text" /\ routes # <<>> /\ Last(routes) = "quiz"
    /\ result' = <<ResourceResult(Str(text), Str(<<"Quiz">>), None, <<>>, <<>>)>>
    /\ pc' = "done"
    /\ ClearRetry
    /\ UNCHANGED <<unitVars, requests, cacheVars, query, api_key, routes, localVars, exc, logVars>>

\* service.py:113-117: the fallback searches with the raw query
FallbackSearch ==
    /\ pc = "got_text" /\ routes # <<>> /\ Last(routes) = "fallback"
    /\ summary' = Str(text)
    /\ vquery' = query
    /\ wquery' = query
    /\ wcategory' = Str(<<"general">>)
    /\ pc' = "video_search"
    /\ ClearRetry
    /\ UNCHANGED <<unitVars, requests, cacheVars, query, api_key, routes, text, data, videos,
                   raw_articles, result, exc, logVars>>

\* service.py:111-144: what the router does with the value of analyze_query
YtQuery(d, q) == IF Truthy(Get(d, "youtube_query", None)) THEN Get(d, "youtube_query", None).s ELSE q
WebQuery(d, q) == IF Truthy(Get(d, "web_query", None)) THEN Get(d, "web_query", None).s ELSE q
WebCategory(d) == Get(d, "category", Str(<<"general">>))
IsChat(d) == Get(d, "category", None) = Str(<<"chat">>)
\* mutant: the chat reply defaults to the empty string
ChatExplanation_noGreeting(d) == Get(d, "explanation", Str(<<>>))
ChatExplanation(d) == Get(d, "explanation", Str(CHAT_GREETING))
RouteResearch ==
    /\ pc = "got_data"
    /\ ClearRetry
    /\ IF DataFalsy(data)
       THEN /\ routes' = Append(routes, "fallback")
            /\ pc' = "generate_text"
            /\ UNCHANGED <<result, exc, summary, vquery, wquery, wcategory>>
       ELSE IF data.kind # "dict"
       THEN \* data.get on a list: AttributeError at service.py:129
            /\ pc' = "raised" /\ exc' = "AttributeError"
            /\ UNCHANGED <<routes, result, summary, vquery, wquery, wcategory>>
       ELSE IF IsChat(data)
       THEN /\ routes' = Append(routes, "chat")
            /\ result' = <<ResourceResult(ChatExplanation(data), Str(<<"chat">>), None,
                                          <<>>, <<>>)>>
            /\ pc' = "done"
            /\ UNCHANGED <<exc, summary, vquery, wquery, wcategory>>
       ELSE /\ routes' = Append(routes, "standard")
            /\ vquery' = YtQuery(data, query)
            /\ wquery' = WebQuery(data, query)
            /\ wcategory' = WebCategory(data)
            /\ pc' = "video_search"
            /\ UNCHANGED <<result, exc, summary>>
    /\ UNCHANGED <<unitVars, requests, cacheVars, query, api_key, text, data, videos,
                   raw_articles, logVars>>

\* st.cache_data(ttl=3600): an entry answers until it is CACHE_TTL old; the
\* cache keeps the age of each entry and drops the entry when it expires.
\* mutant: an empty value is not served from the cache
Fresh_nonEmpty(cache, key) ==
    {e \in cache : e.key = key /\ e.age < CACHE_TTL /\ e.value # <<>>}
Fresh(cache, key) == {e \in cache : e.key = key /\ e.age < CACHE_TTL}
\* mutant: the wrappers store nothing
Store_nothing(cache, key, value) == cache
Store(cache, key, value) ==
    {e \in cache : e.key # key} \cup {[key |-> key, value |-> value, age |-> 0]}
Aged(cache, d) ==
    {[e EXCEPT !.age = e.age + d] : e \in {x \in cache : x.age + d < CACHE_TTL}}

\* cached_video_search (service.py:20-22) around search_youtube
CachedVideoSearch(out) ==
    /\ pc = "video_search"
    /\ videoSearches' = Append(videoSearches, vquery)
    /\ IF Fresh(videoCache, vquery) # {}
       THEN /\ videos' = (CHOOSE e \in Fresh(videoCache, vquery) : TRUE).value
            /\ UNCHANGED videoCache
       ELSE /\ videos' = search_youtube(out)
            /\ videoCache' = Store(videoCache, vquery, search_youtube(out))
    /\ pc' = "web_search"
    /\ UNCHANGED <<unitVars, requests, handlers, webCache, query, api_key, routes, retryVars,
                   text, data, summary, vquery, wquery, wcategory, raw_articles, result,
                   exc, textCalls, structCalls, webSearches>>

\* cached_web_search (service.py:24-26) around search_web, up to the answer
\* of the provider to the trusted-sites request (retrieval.py:76-99); `a` is
\* not looked at when the cache answers.
CachedWebSearch(a) ==
    /\ pc = "web_search"
    /\ webSearches' = Append(webSearches, <<wquery, wcategory>>)
    /\ IF Fresh(webCache, <<wquery, wcategory>>) # {}
       THEN /\ raw_articles' = (CHOOSE e \in Fresh(webCache, <<wquery, wcategory>>) : TRUE).value
            /\ pc' = "assemble"
            /\ UNCHANGED <<webCache, exc>>
       ELSE IF ~CategoryIsStr(wcategory)
       THEN \* None.lower(): AttributeError at retrieval.py:76, nothing is cached
            /\ pc' = "raised" /\ exc' = "AttributeError"
            /\ UNCHANGED <<webCache, raw_articles>>
       ELSE IF PhaseA(a) # <<>>
       THEN /\ raw_articles' = PhaseA(a)
            /\ webCache' = Store(webCache, <<wquery, wcategory>>, PhaseA(a))
            /\ pc' = "assemble"
            /\ UNCHANGED exc
       ELSE /\ pc' = "web_phase_b"
            /\ UNCHANGED <<webCache, raw_articles, exc>>
    /\ UNCHANGED <<unitVars, requests, handlers, videoCache, query, api_key, routes, retryVars,
                   text, data, summary, vquery, wquery, wcategory, videos, result,
                   textCalls, structCalls, videoSearches>>

\* the unrestricted request of search_web (retrieval.py:102-115) and the
\* store of the result by the cache wrapper
WebPhaseB(b) ==
    /\ pc = "web_phase_b"
    /\ raw_articles' = PhaseB(b)
    /\ webCache' = Store(webCache, <<wquery, wcategory>>, PhaseB(b))
    /\ pc' = "assemble"
    /\ UNCHANGED <<unitVars, requests, handlers, videoCache, query, api_key, routes, retryVars,
                   text, data, summary, vquery, wquery, wcategory, videos, result, exc,
                   logVars>>

\* service.py:92-99
SummarizeReturn ==
    /\ pc = "assemble" /\ Last(routes) = "summarize"
    /\ result' = <<ResourceResult(summary, Str(<<"Syllabus">>), None, videos,
                                  ensure_links(wquery, raw_articles))>>
    /\ pc' = "done"
    /\ UNCHANGED <<unitVars, requests, cacheVars, query, api_key, routes, retryVars, localVars,
                   exc, logVars>>

\* mutant: the fallback returns the found articles as they are
FallbackReturn_rawArticles ==
    /\ pc = "assemble" /\ Last(routes) = "fallback"
    /\ result' = <<ResourceResult(summary, Str(<<"general">>), None, videos, raw_articles)>>
    /\ pc' = "done"
    /\ UNCHANGED <<unitVars, requests, cacheVars, query, api_key, routes, retryVars, localVars,
                   exc, logVars>>

\* service.py:118-125
FallbackReturn ==
    /\ pc = "assemble" /\ Last(routes) = "fallback"
    /\ result' = <<ResourceResult(summary, Str(<<"general">>), None, videos,
                                  ensure_links(query, raw_articles))>>
    /\ pc' = "done"
    /\ UNCHANGED <<unitVars, requests, cacheVars, query, api_key, routes, retryVars, localVars,
                   exc, logVars>>

\* service.py:145-153
StandardReturn ==
    /\ pc = "assemble" /\ Last(routes) = "standard"
    /\ result' = <<ResourceResult(Get(data, "explanation", Str(<<>>)),
                                  Get(data, "category", Str(<<"general">>)),
                                  Get(data, "book", None), videos,
                                  ensure_links(wquery, raw_articles))>>
    /\ pc' = "done"
    /\ UNCHANGED <<unitVars, requests, cacheVars, query, api_key, routes, retryVars, localVars,
                   exc, logVars>>

\* handle_request is over: main.py:157-162 keeps the result and the script
\* run ends, or the exception ends the script run.
Finish ==
    /\ pc \in {"done", "raised"}
    /\ pc' = "idle"
    /\ query' = <<>> /\ api_key' = <<>> /\ routes' = <<>>
    /\ ResetLocals
    /\ UNCHANGED <<unitVars, requests, cacheVars>>

\* time passes between two requests
Tick ==
    /\ pc = "idle"
    /\ videoCache' = Aged(videoCache, TickStep)
    /\ webCache' = Aged(webCache, TickStep)
    /\ UNCHANGED <<unitVars, pc, requests, handlers, query, api_key, routes, retryVars, localVars,
                   result, exc, logVars>>

Next ==
    \/ \E q \in Queries, k \in ApiKeys : HandleRequest(q, k)
    \/ GenerateText
    \/ AnalyzeQuery
    \/ \E t \in Texts : op = "text" /\ GenerateContentReturns(TextResponse(t))
    \/ \E d \in Documents : op = "json" /\ GenerateContentReturns(JsonResponse(d))
    \/ \E e \in Errors : GenerateContentRaises(Raised(e))
    \/ SummarizeParse
    \/ QuizReturn
    \/ FallbackSearch
    \/ RouteResearch
    \/ \E out \in YoutubeSearch(max_results) : CachedVideoSearch(out)
    \/ \E a \in DDGS(PHASE_A_MAX) : CachedWebSearch(a)
    \/ \E b \in DDGS(PHASE_B_MAX) : WebPhaseB(b)
    \/ SummarizeReturn
    \/ FallbackReturn
    \/ StandardReturn
    \/ Finish
    \/ Tick

Spec == Init /\ [][Next]_vars

\* ------------------------------------- core/retrieval.py on its own
\* The two search functions called directly, one call at a time, with every
\* answer of the providers and the categories handle_request passes: "cs"
\* (service.py:91), "general" (service.py:117) and data.get("category",
\* "general") (service.py:144), which is any JSON value, null included.
SearchCategories == {Str(<<"cs">>), Str(<<"general">>), Str(<<"science">>), None}
SearchWebItems ==
    WebItems \cup {[title |-> <<"Hello", " ", "World">>, href |-> <<"https://c.example/hello">>]}
WebAnswers(n) ==
    {[ok |-> FALSE, items |-> <<>>]} \cup
    {[ok |-> TRUE, items |-> its] :
        its \in UNION {[1..k -> SearchWebItems] : k \in 0..Min(n, MaxWebResults)}}

\* search_youtube (retrieval.py:57-70)
SearchYoutubeCall(out) ==
    /\ s_pc = "idle"
    /\ s_fn' = "search_youtube" /\ s_category' = None
    /\ s_out' = <<out>> /\ s_a' = <<>> /\ s_b' = <<>>
    /\ s_ret' = search_youtube(out)
    /\ s_pc' = "returned"
    /\ UNCHANGED searchRest

\* search_web up to the trusted-sites request (retrieval.py:76-82)
SearchWebCall(category) ==
    /\ s_pc = "idle"
    /\ s_fn' = "search_web" /\ s_category' = category
    /\ s_out' = <<>> /\ s_a' = <<>> /\ s_b' = <<>> /\ s_ret' = <<>>
    /\ s_pc' = IF CategoryIsStr(category) THEN "phase_a" ELSE "raised"
    /\ UNCHANGED searchRest

\* the trusted-sites request and its loop (retrieval.py:84-99)
SearchWebPhaseA(a) ==
    /\ s_pc = "phase_a"
    /\ s_a' = <<a>>
    /\ IF PhaseA(a) # <<>>
       THEN s_ret' = PhaseA(a) /\ s_pc' = "returned"
       ELSE s_ret' = <<>> /\ s_pc' = "phase_b"
    /\ UNCHANGED <<searchRest, s_fn, s_category, s_out, s_b>>

\* the unrestricted request and its loop (retrieval.py:102-115)
SearchWebPhaseB(b) ==
    /\ s_pc = "phase_b"
    /\ s_b' = <<b>>
    /\ s_ret' = PhaseB(b)
    /\ s_pc' = "returned"
    /\ UNCHANGED <<searchRest, s_fn, s_category, s_out, s_a>>

\* the call is over
SearchEnd ==
    /\ s_pc \in {"returned", "raised"}
    /\ s_pc' = "idle" /\ s_fn' = "" /\ s_category' = None
    /\ s_out' = <<>> /\ s_a' = <<>> /\ s_b' = <<>> /\ s_ret' = <<>>
    /\ UNCHANGED searchRest

SearchNext ==
    \/ \E out \in YoutubeSearch(max_results) : SearchYoutubeCall(out)
    \/ \E category \in SearchCategories : SearchWebCall(category)
    \/ \E a \in WebAnswers(PHASE_A_MAX) : SearchWebPhaseA(a)
    \/ \E b \in WebAnswers(PHASE_B_MAX) : SearchWebPhaseB(b)
    \/ SearchEnd
SearchSpec == Init /\ [][SearchNext]_vars

\* ------------------------------- the cached wrappers on their own
\* cached_video_search and cached_web_search called directly, any number of
\* times, while time passes in steps of TickStep up to MaxClock.
MaxClock == 5400
CacheQueries == {<<"graphs">>}
PrevFetch(log, key) ==
    IF {f \in log : f.key = key} = {} THEN <<>>
    ELSE <<CHOOSE f \in log : f.key = key>>
Logged(log, key, value, failed) ==
    {f \in log : f.key # key} \cup
    {[key |-> key, at |-> c_now, value |-> value, failed |-> failed]}

\* cached_video_search(query) (service.py:20-22)
CacheVideoCall(q, out) ==
    LET hit == Fresh(videoCache, q)
        value == IF hit # {} THEN (CHOOSE e \in hit : TRUE).value ELSE search_youtube(out)
    IN /\ videoCache' = (IF hit # {} THEN videoCache ELSE Store(videoCache, q, value))
       /\ c_vfetch' = (IF hit # {} THEN c_vfetch ELSE Logged(c_vfetch, q, value, ~out.ok))
       /\ c_call' = <<[fn |-> "cached_video_search", key |-> q, at |-> c_now,
                       ran |-> (hit = {}), failed |-> (hit = {} /\ ~out.ok),
                       value |-> value,
                       prev |-> PrevFetch(c_vfetch, q)]>>
       /\ UNCHANGED <<cacheRest, webCache, c_now, c_wfetch>>

\* cached_web_search(query, category) (service.py:24-26)
CacheWebCall(q, category, a, b) ==
    LET key == <<q, category>>
        hit == Fresh(webCache, key)
        value == IF hit # {} THEN (CHOOSE e \in hit : TRUE).value
                 ELSE IF PhaseA(a) # <<>> THEN PhaseA(a) ELSE PhaseB(b)
        failed == PhaseA(a) = <<>> /\ ~b.ok
    IN /\ webCache' = (IF hit # {} THEN webCache ELSE Store(webCache, key, value))
       /\ c_wfetch' = (IF hit # {} THEN c_wfetch ELSE Logged(c_wfetch, key, value, failed))
       /\ c_call' = <<[fn |-> "cached_web_search", key |-> key, at |-> c_now,
                       ran |-> (hit = {}), failed |-> (hit = {} /\ failed),
                       value |-> value,
                       prev |-> PrevFetch(c_wfetch, key)]>>
       /\ UNCHANGED <<cacheRest, videoCache, c_now, c_vfetch>>

\* time passes between two calls
CacheTick ==
    /\ c_now + TickStep <= MaxClock
    /\ c_now' = c_now + TickStep
    /\ videoCache' = Aged(videoCache, TickStep)
    /\ webCache' = Aged(webCache, TickStep)
    /\ UNCHANGED <<cacheRest, c_vfetch, c_wfetch, c_call>>

CacheNext ==
    \/ \E q \in CacheQueries, out \in YoutubeSearch(1) : CacheVideoCall(q, out)
    \/ \E q \in CacheQueries, category \in {Str(<<"cs">>), Str(<<"general">>)}, a \in DDGS(1), b \in DDGS(1) :
            CacheWebCall(q, category, a, b)
    \/ CacheTick
CacheSpec == Init /\ [][CacheNext]_vars

\* ------------------------------------- main.py and core/files.py
MaxUploads == 3
\* file names, split at the dots
FileNames == { <<"notes", ".", "pdf">>, <<"deck", ".", "pptx">>, <<"scan", ".", "PNG">> }
\* str.lower()
Lower(t) == IF t = "PNG" THEN "png" ELSE t
\* uploaded_file.name.split('.')[-1].lower() (files.py:34)
Ext(name) == Lower(Last(name))
\* What the extraction libraries (PyPDF2, python-pptx, PIL and the vision
\* model) do with a file: raise an error, or yield the text of the document.
Extractions ==
    { [ok |-> FALSE, err |-> <<"EOF", " ", "marker", " ", "not", " ", "found">>, text |-> <<>>],
      [ok |-> TRUE, err |-> <<>>, text |-> <<>>],
      [ok |-> TRUE, err |-> <<>>, text |-> <<"Graph", " ", "Theory", "\n">>],
      [ok |-> TRUE, err |-> <<>>, text |-> <<"\n", "Errors", " ", "in", " ", "C">>] }
VISION_KEY_NEEDED == <<"Error:", " ", "API", " ", "Key", " ", "needed", " ", "for", " ", "vision.">>
ERROR_PARSING == <<"Error", " ", "parsing", " ", "file:", " ">>
\* parse_file (files.py:20-73), reached through process_file (service.py:155)
parse_file(name, key, lib) ==
    IF Ext(name) \in {"jpg", "jpeg", "png"} /\ key = <<>> THEN VISION_KEY_NEEDED
    ELSE IF Ext(name) \notin {"pdf", "pptx", "jpg", "jpeg", "png"} THEN Strip(<<>>)
    ELSE IF lib.ok THEN Strip(lib.text)
    ELSE ERROR_PARSING \o lib.err
\* mutant: no value of process_file is taken for an error
StartsWithError_never(t) == FALSE
\* text.startswith("Error") (main.py:72), true of the tokens spelled with a
\* leading "Error"
StartsWithError(t) == t # <<>> /\ Head(t) \in {"Error", "Error:", "Errors"}
\* f"\n\n--- {uploaded_file.name} ---\n{text}" (main.py:73)
\* the session as a run finds it, with the name and the outcome of the run
\* with a file before it, if there was one since the session was last empty
SessionBefore ==
    [context |-> context_cache, files |-> file_list,
     last |-> IF u_last = <<>> THEN <<>>
              ELSE <<[name |-> u_last[1].name, failed |-> u_last[1].failed]>>]
Section(name, t) == <<"\n", "\n", "---", " ">> \o name \o <<" ", "---", "\n">> \o t
\* mutant: no name is found in the list
InList_never(x, list) == FALSE
InList(x, list) == \E i \in 1..Len(list) : list[i] = x

\* A script run with a file in the uploader (main.py:66-74): the file is
\* processed unless its name is in file_list already.
UploadRun(name, key, lib) ==
    /\ uploads < MaxUploads
    /\ uploads' = uploads + 1
    /\ IF InList(name, file_list)
       THEN /\ u_last' = <<[name |-> name, text |-> <<>>, failed |-> FALSE,
                            before |-> SessionBefore]>>
            /\ UNCHANGED <<context_cache, file_list>>
       ELSE LET t == parse_file(name, key, lib) IN
            /\ u_last' = <<[name |-> name, text |-> <<t>>,
                            failed |-> (t = VISION_KEY_NEEDED
                                        \/ (Ext(name) \in {"pdf", "pptx", "jpg", "jpeg", "png"}
                                            /\ ~lib.ok)),
                            before |-> SessionBefore]>>
            /\ IF ~StartsWithError(t)
               THEN /\ context_cache' = context_cache \o Section(name, t)
                    /\ file_list' = Append(file_list, name)
               ELSE UNCHANGED <<context_cache, file_list>>
    /\ UNCHANGED sessionRest

\* the Clear Memory button (main.py:78-80): the next script run starts from an
\* empty session
ClearMemory ==
    /\ context_cache' = <<>> /\ file_list' = <<>> /\ u_last' = <<>>
    /\ UNCHANGED <<sessionRest, uploads>>

SessionNext ==
    \/ \E name \in FileNames, key \in ApiKeys, lib \in Extractions : UploadRun(name, key, lib)
    \/ ClearMemory
SessionSpec == Init /\ [][SessionNext]_vars

\* ------------------------------ the cut of the summary on its own
\* service.py:77-87 applied to every text of at most MaxTextLen tokens made
\* of a word, a space, the tag and the bold markup.
MaxTextLen == 5
ParseTexts ==
    UNION {[1..n -> {"Modules", " ", "SEARCH_QUERY:", "**"}] : n \in 0..MaxTextLen}
\* full_response = handler.generate_text(prompt) (service.py:77)
SummaryGenerated(t) ==
    /\ p_pc = "idle"
    /\ p_text' = t /\ p_pc' = "generated"
    /\ UNCHANGED <<parseRest, p_summary, p_topic>>
\* service.py:78-87
SummaryParsed ==
    /\ p_pc = "generated"
    /\ p_summary' = SummaryText(p_text)
    /\ p_topic' = SearchTopic(p_text)
    /\ p_pc' = "parsed"
    /\ UNCHANGED <<parseRest, p_text>>
ParseNext ==
    \/ \E t \in ParseTexts : SummaryGenerated(t)
    \/ SummaryParsed
ParseSpec == Init /\ [][ParseNext]_vars

\* ------------------------------ the context inside the prompts
\* Each place where a prompt is built from the context, for contexts of
\* ContextStep * k characters (k up to MaxContextSteps) and of the lengths
\* around each budget. Only the length of the context matters to a slice.
SUMMARIZE_BUDGET == 20000
QUIZ_BUDGET == 5000
FALLBACK_BUDGET == 10000
ANALYZE_BUDGET == 50000
ContextStep == 2500
MaxContextSteps == 24
Budgets == {SUMMARIZE_BUDGET, QUIZ_BUDGET, FALLBACK_BUDGET, ANALYZE_BUDGET}
ContextLengths ==
    {ContextStep * k : k \in 0..MaxContextSteps}
        \cup {b + d : b \in Budgets, d \in {-1, 0, 1}}
\* mutant: the whole context is put in the prompt
SliceTo_whole(len, n) == [start |-> 0, stop |-> len]
\* context[:n] for n >= 0: the characters from index 0 up to min(n, len)
SliceTo(len, n) == [start |-> 0, stop |-> Min(n, len)]
PromptSites ==
    [summarize |-> SUMMARIZE_BUDGET, quiz |-> QUIZ_BUDGET, fallback |-> FALLBACK_BUDGET,
     analyze_query |-> ANALYZE_BUDGET]
\* service.py:74, 103, 113 and llm.py:84
PromptBuilt(len, site) ==
    /\ prompt_site = ""
    /\ ctx_len' = len
    /\ prompt_site' = site
    /\ prompt_ctx' = SliceTo(len, PromptSites[site])
    /\ UNCHANGED promptRest
PromptSent ==
    /\ prompt_site # ""
    /\ ctx_len' = 0 /\ prompt_site' = "" /\ prompt_ctx' = [start |-> 0, stop |-> 0]
    /\ UNCHANGED promptRest
PromptNext ==
    \/ \E len \in ContextLengths, site \in DOMAIN PromptSites : PromptBuilt(len, site)
    \/ PromptSent
PromptSpec == Init /\ [][PromptNext]_vars

\* --------------------- requests of two sessions in one process
\* What handle_request does to the state of the process, for two sessions
\* whose requests interleave: get_llm_handler (service.py:28-30, 41), then,
\* on the routes that search, cached_video_search and cached_web_search.
\* The generation calls in between touch no state of the process. Each
\* cached call is one step: st.cache_data and st.cache_resource compute a
\* missing value under a lock and look the key up again inside it.
Sessions == {"s1", "s2"}
\* main.py:146-150: the worker calls handle_request
SharedArrive(s, k) ==
    /\ g_pc[s] = "idle"
    /\ g_pc' = [g_pc EXCEPT ![s] = "get_llm_handler"]
    /\ g_req' = [g_req EXCEPT ![s] = [query |-> <<"graphs">>, key |-> k]]
    /\ UNCHANGED <<sharedRest, handlers, videoCache, webCache, genai_key>>
\* get_llm_handler (service.py:28-30): a key without a handler gets one, and
\* GeminiHandler.__init__ (llm.py:42-55) calls genai.configure with the key
\* when the key is not empty
SharedGetHandler(s) ==
    /\ g_pc[s] = "get_llm_handler"
    /\ handlers' = handlers \cup {g_req[s].key}
    /\ genai_key' = (IF g_req[s].key \notin handlers /\ g_req[s].key # <<>>
                     THEN g_req[s].key ELSE genai_key)
    /\ g_pc' = [g_pc EXCEPT ![s] = "routed"]
    /\ UNCHANGED <<sharedRest, videoCache, webCache, g_req>>
\* the quiz and chat routes return without a search (service.py:104, 129-133)
SharedReturnEarly(s) ==
    /\ g_pc[s] = "routed"
    /\ g_pc' = [g_pc EXCEPT ![s] = "idle"]
    /\ UNCHANGED <<sharedRest, handlers, videoCache, webCache, g_req, genai_key>>
\* cached_video_search (service.py:20-22)
SharedVideoSearch(s, out) ==
    /\ g_pc[s] = "routed"
    /\ videoCache' = (IF Fresh(videoCache, g_req[s].query) # {} THEN videoCache
                      ELSE Store(videoCache, g_req[s].query, search_youtube(out)))
    /\ g_pc' = [g_pc EXCEPT ![s] = "web_search"]
    /\ UNCHANGED <<sharedRest, handlers, webCache, g_req, genai_key>>
\* cached_web_search (service.py:24-26), after which the request returns
SharedWebSearch(s, a, b) ==
    LET key == <<g_req[s].query, Str(<<"general">>)>> IN
    /\ g_pc[s] = "web_search"
    /\ webCache' = (IF Fresh(webCache, key) # {} THEN webCache
                    ELSE Store(webCache, key,
                               IF PhaseA(a) # <<>> THEN PhaseA(a) ELSE PhaseB(b)))
    /\ g_pc' = [g_pc EXCEPT ![s] = "idle"]
    /\ UNCHANGED <<sharedRest, handlers, videoCache, g_req, genai_key>>
\* time passes
SharedTick ==
    /\ videoCache' = Aged(videoCache, TickStep)
    /\ webCache' = Aged(webCache, TickStep)
    /\ UNCHANGED <<sharedRest, handlers, sharedVars>>
SharedNext ==
    \/ \E s \in Sessions, k \in {<<>>, <<"key-1">>, <<"key-2">>} : SharedArrive(s, k)
    \/ \E s \in Sessions : SharedGetHandler(s)
    \/ \E s \in Sessions : SharedReturnEarly(s)
    \/ \E s \in Sessions, out \in YoutubeSearch(1) : SharedVideoSearch(s, out)
    \/ \E s \in Sessions, a \in DDGS(1), b \in DDGS(1) : SharedWebSearch(s, a, b)
    \/ SharedTick
SharedSpec == Init /\ [][SharedNext]_vars

\* ----------------------- the generation work of one request
\* handle_request reduced to its generation operations, with the calls and
\* the sleeps of the whole request counted: the sentinel routes call
\* generate_text once (service.py:77, 103), the other queries call
\* analyze_query (service.py:107) and, when its value is falsy,
\* generate_text (service.py:113). The searches make no backend call.
BudgetRequest(q, k) ==
    /\ b_pc = "idle"
    /\ b_query' = q /\ b_key' = k
    /\ b_pc' = IF FirstRoute(q) = "research" THEN "analyze_query" ELSE "generate_text"
    /\ b_op' = "" /\ b_attempt' = 0 /\ b_ops' = 0 /\ b_calls' = 0 /\ b_waits' = <<>>
    /\ b_data' = NoData /\ b_text' = <<>>
    /\ UNCHANGED budgetRest
\* generate_text and analyze_query up to _generate_with_retry (llm.py:79,
\* 117): without a key analyze_query returns None, which sends the router
\* to generate_text, and generate_text returns its message
BudgetBegin ==
    /\ b_pc \in {"generate_text", "analyze_query"}
    /\ b_ops' = b_ops + 1
    /\ b_attempt' = 0
    /\ IF b_key # <<>>
       THEN /\ b_pc' = "backend"
            /\ b_op' = (IF b_pc = "generate_text" THEN "text" ELSE "json")
            /\ UNCHANGED <<b_data, b_text>>
       ELSE /\ b_op' = ""
            /\ IF b_pc = "analyze_query"
               THEN b_data' = NoData /\ b_pc' = "generate_text" /\ UNCHANGED b_text
               ELSE b_text' = API_KEY_MISSING /\ b_pc' = "done" /\ UNCHANGED b_data
    /\ UNCHANGED <<budgetRest, b_query, b_key, b_calls, b_waits>>
\* generate_content returns (llm.py:61): the text ends the generation work;
\* a document that is falsy or not JSON sends the router to generate_text
\* (service.py:111), any other document ends the generation work
BudgetReturns(r) ==
    /\ b_pc = "backend"
    /\ b_calls' = b_calls + 1
    /\ b_op' = ""
    /\ IF b_op = "json"
       THEN /\ b_data' = (IF JsonValid(r) THEN r.json ELSE NoData)
            /\ b_pc' = (IF DataFalsy(b_data') THEN "generate_text" ELSE "done")
            /\ UNCHANGED b_text
       ELSE b_text' = r.text /\ b_pc' = "done" /\ UNCHANGED b_data
    /\ UNCHANGED <<budgetRest, b_query, b_key, b_attempt, b_ops, b_waits>>
\* generate_content raises (llm.py:62-71): a sleep and one more pass, or the
\* error is raised to the operation, whose except clause answers
\* (llm.py:108-110, 122-123)
BudgetRaises(r) ==
    /\ b_pc = "backend"
    /\ b_calls' = b_calls + 1
    /\ IF ShouldRetry(r.err, b_attempt)
       THEN /\ b_waits' = Append(b_waits, WaitTime(b_attempt))
            /\ b_attempt' = b_attempt + 1
            /\ UNCHANGED <<b_pc, b_op, b_data, b_text>>
       ELSE /\ IF b_op = "json"
               THEN b_data' = NoData /\ b_pc' = "generate_text" /\ UNCHANGED b_text
               ELSE /\ b_text' = GENERATION_FAILED \o r.err /\ b_pc' = "done"
                    /\ UNCHANGED b_data
            /\ b_op' = ""
            /\ UNCHANGED <<b_waits, b_attempt>>
    /\ UNCHANGED <<budgetRest, b_query, b_key, b_ops>>
\* handle_request returns or raises
BudgetEnd ==
    /\ b_pc = "done"
    /\ b_pc' = "idle" /\ b_query' = <<>> /\ b_key' = <<>>
    /\ b_op' = "" /\ b_attempt' = 0 /\ b_ops' = 0 /\ b_calls' = 0 /\ b_waits' = <<>>
    /\ b_data' = NoData /\ b_text' = <<>>
    /\ UNCHANGED budgetRest
BudgetNext ==
    \/ \E q \in Queries, k \in ApiKeys : BudgetRequest(q, k)
    \/ BudgetBegin
    \/ \E t \in Texts : b_op = "text" /\ BudgetReturns(TextResponse(t))
    \/ \E d \in Documents : b_op = "json" /\ BudgetReturns(JsonResponse(d))
    \/ \E e \in Errors : BudgetRaises(Raised(e))
    \/ BudgetEnd
\* every call of the backend returns or raises, and the interpreter runs on
BudgetSpec == Init /\ [][BudgetNext]_vars /\ WF_vars(BudgetNext)

\* ------------------------------------ the conversation of main.py
\* The script of main.py runs from the top at every event of the session.
\* A run that appends a message ends in st.rerun(); a widget event that
\* arrives while a run is inside handle_request ends that run at its next
\* Streamlit call, st.markdown at main.py:153, before the append of
\* main.py:156, and starts the next run with the event.
MaxMessages == 4
MaxCalls == 3
ChatQueries == {CMD_QUIZ, <<"explain", " ", "graphs">>}
UserMessage(q) == [role |-> "user", content |-> q, data |-> <<>>]
AssistantMessage(res) ==
    [role |-> "assistant", content |-> res.explanation, data |-> <<res>>]

\* the landing page (main.py:86-109): a query is accepted with a key only
ChatSubmit(q) ==
    /\ m_pc = "idle" /\ messages = <<>>
    /\ IF m_key # <<>>
       THEN messages' = Append(messages, UserMessage(q)) /\ m_pc' = "run"
       ELSE UNCHANGED <<messages, m_pc>>
    /\ UNCHANGED <<chatRest, sessionVars, m_key, m_calls>>
\* st.chat_input under the history (main.py:137-139), also while the worker
\* block of an earlier run is still inside handle_request
ChatFollowUp(q) ==
    /\ m_pc \in {"idle", "handling"} /\ messages # <<>>
    /\ Len(messages) < MaxMessages
    /\ messages' = Append(messages, UserMessage(q))
    /\ m_pc' = "run"
    /\ UNCHANGED <<chatRest, sessionVars, m_key, m_calls>>
\* any other widget event (the uploader, the key field with its new value):
\* a new run
ChatRerun(k) ==
    /\ m_pc \in {"idle", "handling"}
    /\ m_key' = k
    /\ m_pc' = "run"
    /\ UNCHANGED <<chatRest, sessionVars, messages, m_calls>>
\* the Clear Memory button (main.py:78-80): st.session_state.clear() and a
\* new run, which initialises the session again (main.py:33-41)
ChatClearMemory ==
    /\ m_pc \in {"idle", "handling"}
    /\ messages' = <<>> /\ context_cache' = <<>> /\ file_list' = <<>>
    /\ u_last' = <<>>
    /\ m_calls' = [j \in 1..Len(m_calls) |-> [m_calls[j] EXCEPT !.msg = 0]]
    /\ m_pc' = "run"
    /\ UNCHANGED <<chatRest, uploads, m_key>>
\* the worker block (main.py:143-150): handle_request is called when the
\* last message is a user message
ChatWorkerStart ==
    /\ m_pc = "run"
    /\ IF messages # <<>> /\ Last(messages).role = "user"
       THEN /\ Len(m_calls) < MaxCalls
            /\ m_calls' = Append(m_calls, [msg |-> Len(messages), result |-> <<>>])
            /\ m_pc' = "handling"
       ELSE m_pc' = "idle" /\ UNCHANGED m_calls
    /\ UNCHANGED <<chatRest, sessionVars, messages, m_key>>
\* handle_request returns (main.py:153-162)
ChatWorkerReturns(explanation) ==
    /\ m_pc = "handling"
    /\ messages' = Append(messages, AssistantMessage([explanation |-> explanation]))
    /\ m_calls' = [m_calls EXCEPT ![Len(m_calls)].result = <<[explanation |-> explanation]>>]
    /\ m_pc' = "run"
    /\ UNCHANGED <<chatRest, sessionVars, m_key>>
\* handle_request raises, which it can for a query that is neither sentinel
\* when a key is set (service.py:129, retrieval.py:76): the run ends with
\* the error on the page and nothing appended
ChatWorkerRaises ==
    /\ m_pc = "handling"
    /\ m_key # <<>> /\ FirstRoute(Last(messages).content) = "research"
    /\ m_pc' = "idle"
    /\ UNCHANGED <<chatRest, sessionVars, messages, m_key, m_calls>>
ChatNext ==
    \/ \E q \in ChatQueries : ChatSubmit(q)
    \/ \E q \in ChatQueries : ChatFollowUp(q)
    \/ \E k \in ApiKeys : ChatRerun(k)
    \/ ChatClearMemory
    \/ ChatWorkerStart
    \/ \E e \in {<<"Modules">>, <<"Hello!">>} : ChatWorkerReturns(e)
    \/ ChatWorkerRaises
ChatSpec == Init /\ [][ChatNext]_vars

\* ======================================================== properties
Returned == pc = "done"
Res == result[1]
NonSentinel == query # CMD_SUMMARIZE /\ query # CMD_QUIZ
InRequest == pc # "idle"
\* analyze_query has handed its value to the router
Analyzed == structCalls = 1 /\ pc \notin {"analyze_query", "backend", "got_data"}
IsSeq(x) == DOMAIN x = 1..Len(x)

\* C1: whatever the backend and the providers do, handle_request ends by
\* returning a ResourceResult; no exception escapes the router.
C1_NoExceptionEscapes == pc # "raised"

\* C2: a request for the summarize sentinel never raises, and once it has
\* returned, the result has category "Syllabus", a non-empty articles list and
\* at most 2 videos, and exactly one video search and one web search were
\* issued, both on the topic derived from the generated text.
C2_Summarize ==
    (InRequest /\ query = CMD_SUMMARIZE) =>
        /\ pc # "raised"
        /\ Returned =>
            /\ Res.category = Str(<<"Syllabus">>)
            /\ Res.articles # <<>>
            /\ Len(Res.videos) <= 2
            /\ videoSearches = <<SearchTopic(text)>>
            /\ webSearches = << <<SearchTopic(text), Str(<<"cs">>)>> >>
C2_Witness ==
    /\ query = CMD_SUMMARIZE /\ Returned
    /\ raw_articles = <<>> /\ Len(Res.videos) = 2
    /\ wquery # DEFAULT_TOPIC

\* C3: a request for the quiz sentinel issues no video search, no web search
\* and no structured generation at any point, never raises, and returns a
\* result with category "Quiz" and empty videos and articles.
C3_Quiz ==
    (InRequest /\ query = CMD_QUIZ) =>
        /\ videoSearches = <<>> /\ webSearches = <<>> /\ structCalls = 0
        /\ pc # "raised"
        /\ Returned =>
            /\ Res.category = Str(<<"Quiz">>)
            /\ Res.videos = <<>> /\ Res.articles = <<>>
C3_Witness == query = CMD_QUIZ /\ Returned /\ textCalls = 1 /\ api_key # <<>>

\* C4: when analyze_query returned a dict whose category is "chat", the router
\* issues no search, and returns at once a result with category "chat", empty
\* videos and articles, and the dict's explanation, or the greeting when the
\* dict has no explanation key.
ChatData ==
    /\ data.kind = "dict" /\ "category" \in DOMAIN data.f
    /\ data.f["category"] = Str(<<"chat">>)
C5_Fallback ==
    (NonSentinel /\ Analyzed /\ data.kind = "none") =>
        /\ routes = <<"fallback">>
        /\ pc # "raised"
        /\ Returned =>
            /\ textCalls = 1
            /\ videoSearches = <<query>>
            /\ webSearches = << <<query, Str(<<"general">>)>> >>
            /\ Res.category = Str(<<"general">>)
            /\ Res.explanation = Str(text)
            /\ Res.videos = videos
            /\ Res.articles # <<>>
C5_Witness ==
    /\ NonSentinel /\ Returned /\ data.kind = "none" /\ routes = <<"fallback">>
    /\ raw_articles = <<>> /\ api_key # <<>>

\* C6: on the standard-success route (a dict whose category is not "chat") the
\* request returns; the video search was issued with youtube_query when it is
\* present and with the raw query otherwise; the web search was issued with
\* web_query when present and the raw query otherwise, under the returned
\* category, or "general" when no category is returned; explanation, category
\* and book of the result are those of the dict.
Present(d, key) == key \in DOMAIN d.f /\ d.f[key].kind = "str" /\ d.f[key].s # <<>>
StandardData == data.kind = "dict" /\ DOMAIN data.f # {} /\ ~ChatData
C6_StandardSuccess ==
    (NonSentinel /\ Analyzed /\ StandardData) =>
        /\ pc # "raised"
        /\ Returned =>
            /\ videoSearches =
                 << IF Present(data, "youtube_query") THEN data.f["youtube_query"].s
                    ELSE query >>
            /\ webSearches =
                 << << IF Present(data, "web_query") THEN data.f["web_query"].s ELSE query,
                       IF Present(data, "category") THEN data.f["category"]
                       ELSE Str(<<"general">>) >> >>
            /\ "explanation" \in DOMAIN data.f => Res.explanation = data.f["explanation"]
            /\ Res.category = (IF Present(data, "category") THEN data.f["category"]
                               ELSE Str(<<"general">>))
            /\ "book" \in DOMAIN data.f => Res.book = data.f["book"]

\* C7: ensure_links, as the routes apply it: when the search found no article
\* the result has exactly 2 articles and the link of each contains the
\* URL-escaped topic; when it found some, the result has exactly those; hence
\* the summarize, fallback and standard routes return a non-empty list.
LinkRoutes == {"summarize", "fallback", "standard"}
C7_EnsureLinks ==
    (Returned /\ Last(routes) \in LinkRoutes) =>
        /\ raw_articles = <<>> =>
            /\ Len(Res.articles) = 2
            /\ \A i \in 1..2 : Contains(Res.articles[i].link, Quote(wquery))
            /\ \A i \in 1..2 : wquery # <<>> =>
                 \A j \in 1..Len(Res.articles[i].link) :
                    Res.articles[i].link[j] \notin Whitespace \cup NonAsciiTokens
        /\ raw_articles # <<>> => Res.articles = raw_articles
        /\ Res.articles # <<>>
C7_Witness ==
    /\ Returned /\ Last(routes) \in LinkRoutes /\ raw_articles = <<>>
    /\ ContainsToken(wquery, "U+00E9") /\ Len(Res.articles) = 2

\* C8: a summarize request takes only the summarize route and a quiz request
\* only the quiz route, neither with a structured generation; any other
\* query, also one that differs from a sentinel in case or whitespace only,
\* runs structured generation exactly once and ends having taken exactly one
\* of the fallback, chat and standard branches.
C8_Routing ==
    InRequest =>
        /\ query = CMD_SUMMARIZE => routes = <<"summarize">> /\ structCalls = 0
        /\ query = CMD_QUIZ => routes = <<"quiz">> /\ structCalls = 0
        /\ NonSentinel =>
            /\ structCalls <= 1
            /\ pc # "analyze_query" => structCalls = 1
            /\ Len(routes) <= 1
            /\ pc \in {"done", "raised"} =>
                 Len(routes) = 1 /\ routes[1] \in {"fallback", "chat", "standard"}

\* C9: every ResourceResult returned has a string as explanation, and videos
\* and articles that are sequences.
C9_ResultShape ==
    Returned =>
        /\ Res.explanation.kind = "str"
        /\ IsSeq(Res.videos) /\ IsSeq(Res.articles)

\* C10: when _generate_with_retry has ended: if the backend answered k quota
\* errors (message with "429" or "Quota") and then a response, at most 3
\* answers in all, the sleeps were 5, 10, ... (k of them) and that response
\* was returned; if its first answer was another error, there was no sleep,
\* no second call, and that error was raised.
QuotaMessage(e) ==
    (\E i \in 1..Len(e) : e[i] = "429") \/ (\E i \in 1..Len(e) : e[i] = "Quota")
QuotaAnswer(r) == ~r.ok /\ QuotaMessage(r.err)
C10_RetryBackoff ==
    retried # <<>> =>
        LET n == Len(answers) IN
        /\ (answers[n].ok /\ \A i \in 1..(n - 1) : QuotaAnswer(answers[i])) =>
              /\ n <= 3
              /\ waits = [i \in 1..(n - 1) |-> 5 * i]
              /\ retried[1] = [kind |-> "return", answer |-> answers[n]]
        /\ (~answers[1].ok /\ ~QuotaMessage(answers[1].err)) =>
              /\ n = 1 /\ waits = <<>>
              /\ retried[1] = [kind |-> "raise", answer |-> answers[1]]
C10_Witness ==
    /\ retried # <<>> /\ Len(answers) = 3 /\ answers[3].ok
    /\ waits = <<5, 10>> /\ answers[1].err # answers[2].err

\* C11: a generation operation calls the backend at most 3 times and sleeps
\* at most twice; when the backend answered 3 quota errors in a row the sleeps
\* were 5 and 10 (none after the third attempt), the third error was raised
\* to the caller, and the caller did not raise: analyze_query returned None,
\* generate_text returned "Generation failed: " followed by the message.
Exhausted == Len(answers) = 3 /\ \A i \in 1..3 : QuotaAnswer(answers[i])
C11_RetryExhaustion ==
    /\ Len(answers) <= 3 /\ Len(waits) <= 2
    /\ (retried # <<>> /\ Exhausted) =>
          /\ waits = <<5, 10>>
          /\ retried[1] = [kind |-> "raise", answer |-> answers[3]]
          /\ op = "json" => (pc = "got_data" /\ data = NoData)
          /\ op = "text" =>
                /\ pc = "got_text"
                /\ text = <<"Generation", " ", "failed:", " ">> \o answers[3].err
C11_Witness ==
    /\ retried # <<>> /\ Exhausted /\ op = "text"
    /\ answers[3].err = <<"Quota", " ", "exceeded">>

\* C12: no exception escapes while generate_text is the operation in
\* progress, and when generate_text has returned its value is a string: the
\* "API Key missing." message without a credential, "Generation failed: "
\* followed by the error message when the backend's error was raised (after
\* exhausted retries or at once), the response's text otherwise.
C12_GenerateTextTotal ==
    /\ ~(pc = "raised" /\ op = "text")
    /\ (pc = "got_text" /\ IsSeq(text)) \/ pc # "got_text"
    /\ (pc = "got_text" /\ api_key = <<>>) => text = <<"API", " ", "Key", " ", "missing.">>
    /\ (pc = "got_text" /\ retried # <<>>) =>
          LET last == answers[Len(answers)] IN
          /\ ~last.ok => text = <<"Generation", " ", "failed:", " ">> \o last.err
          /\ last.ok => text = last.text
C12_Witness ==
    /\ pc = "got_text" /\ retried # <<>> /\ Len(answers) = 1
    /\ answers[1].err = <<"500", " ", "Internal">>

\* C13: no exception escapes while analyze_query is the operation in
\* progress, and when analyze_query has returned its value is None without a
\* credential, when the backend's error was raised (after exhausted retries
\* or at once) and when the response is not valid JSON, and it is the parsed
\* document otherwise.
C13_AnalyzeQueryTotal ==
    /\ ~(pc = "raised" /\ op = "json")
    /\ (pc = "got_data" /\ api_key = <<>>) => data = NoData
    /\ (pc = "got_data" /\ retried # <<>>) =>
          LET last == answers[Len(answers)] IN
          /\ (~last.ok \/ last.json.kind = "invalid") => data = NoData
          /\ (last.ok /\ last.json.kind # "invalid") => data = last.json
C13_Witness ==
    /\ pc = "got_data" /\ retried # <<>> /\ Len(answers) = 2
    /\ answers[2].ok /\ answers[2].json.kind = "invalid"

\* title made of ASCII characters only, and what an answer of the web
\* provider leaves when the other titles are dropped
AsciiTitle(t) == \A i \in 1..Len(t) : t[i] \notin {"U+00E9", "U+4F60", "U+597D", "U+1F4D6", "U+1F393"}
Kept(items) ==
    LET f == SelectSeq(items, LAMBDA r : AsciiTitle(r.title))
    IN [i \in 1..Len(f) |-> [title |-> f[i].title, link |-> f[i].href]]
Surviving(ans) == IF ans[1].ok THEN Kept(ans[1].items) ELSE <<>>

\* C14: a call of search_youtube or search_web never raises, whatever the
\* category; search_youtube returns the empty list when the video provider
\* failed; when the trusted-sites request failed search_web goes on to the
\* unrestricted request and returns what that one yields, and when the
\* unrestricted request failed it returns the empty list.
C14_SearchesSwallowFailures ==
    /\ s_pc # "raised"
    /\ (s_pc = "returned" /\ s_fn = "search_youtube" /\ ~s_out[1].ok) => s_ret = <<>>
    /\ (s_a # <<>> /\ ~s_a[1].ok) =>
          /\ s_pc \in {"phase_b", "returned"}
          /\ s_pc = "returned" => (s_b # <<>> /\ s_ret = Surviving(s_b))
    /\ (s_b # <<>> /\ ~s_b[1].ok) => (s_pc = "returned" /\ s_ret = <<>>)
    /\ s_pc = "returned" => IsSeq(s_ret)

\* C17: the unrestricted request is issued if and only if the trusted-sites
\* request ended with no surviving result (it failed, it was empty, or the
\* filter rejected every title); when a result of the trusted-sites request
\* survives, search_web returns the survivors in the provider's order and
\* issues no second request.
C17_TwoPhaseOrder ==
    /\ s_b # <<>> => (s_a # <<>> /\ Surviving(s_a) = <<>>)
    /\ s_pc = "phase_b" => (s_a # <<>> /\ Surviving(s_a) = <<>>)
    /\ (s_a # <<>> /\ Surviving(s_a) = <<>>) =>
          (s_pc = "phase_b" \/ (s_pc = "returned" /\ s_b # <<>>))
    /\ (s_a # <<>> /\ Surviving(s_a) # <<>>) =>
          (s_pc = "returned" /\ s_b = <<>> /\ s_ret = Surviving(s_a))
C17_Witness ==
    /\ s_pc = "returned" /\ s_b # <<>> /\ s_ret # <<>>
    /\ s_a[1].ok /\ Len(s_a[1].items) = 2

\* C18: every article search_web returns has an all-ASCII title, and the
\* list returned is made of all the results with an all-ASCII title of the
\* answer that produced it (the unrestricted request's when it was issued,
\* the trusted-sites request's otherwise), in the provider's order;
\* is_english accepts "Hello World" and rejects "Caf\u00e9".
C18_EnglishFilter ==
    /\ is_english(<<"Hello", " ", "World">>)
    /\ ~is_english(<<"Caf", "U+00E9">>)
    /\ (s_pc = "returned" /\ s_fn = "search_web") =>
          /\ \A i \in 1..Len(s_ret) : AsciiTitle(s_ret[i].title)
          /\ s_ret = (IF s_b # <<>> THEN Surviving(s_b) ELSE Surviving(s_a))
C18_Witness ==
    /\ s_pc = "returned" /\ s_b # <<>> /\ s_b[1].ok
    /\ Len(s_b[1].items) = 2 /\ Len(s_ret) = 1
    /\ s_ret[1].title = <<"Hello", " ", "World">>
    /\ \E i \in 1..Len(s_b[1].items) : ~AsciiTitle(s_b[1].items[i].title)

\* C15: for every call of cached_video_search or cached_web_search: when the
\* wrapped search last ran for the same key (the query, or the query and the
\* category) less than 3600 s before, the search does not run again and the
\* value of that run is returned; when it never ran for the key, or ran 3600 s
\* before or earlier, it runs again.
C15_SearchCaching ==
    c_call # <<>> =>
        LET call == c_call[1] IN
        /\ (call.prev # <<>> /\ call.at - call.prev[1].at < 3600) =>
              (~call.ran /\ call.value = call.prev[1].value)
        /\ (call.prev = <<>> \/ call.at - call.prev[1].at >= 3600) => call.ran
C15_Witness ==
    /\ c_call # <<>> /\ c_call[1].fn = "cached_web_search"
    /\ c_call[1].prev # <<>> /\ ~c_call[1].ran
    /\ c_call[1].at > c_call[1].prev[1].at /\ c_call[1].value # <<>>
    /\ Cardinality(c_wfetch) = 2

\* C16: for every script run that processed an uploaded file: when
\* process_file returned a string starting with "Error", context_cache and
\* file_list are as before the run; otherwise context_cache is what it was
\* followed by one section made of the file's name and that string, and
\* file_list is what it was followed by the name. A failed extraction leaves
\* both unchanged, and its message is nowhere in context_cache.
ErrorPrefixed(t) == Len(t) > 0 /\ t[1] \in {"Error", "Error:", "Errors"}
C16_UploadContext ==
    /\ \A i \in 1..Len(context_cache) : context_cache[i] \notin {"parsing", "vision."}
    /\ (u_last # <<>> /\ u_last[1].text # <<>>) =>
          LET run == u_last[1]
              t == run.text[1]
          IN /\ run.failed => ErrorPrefixed(t)
             /\ ErrorPrefixed(t) =>
                   (context_cache = run.before.context /\ file_list = run.before.files)
             /\ ~ErrorPrefixed(t) =>
                   /\ context_cache = run.before.context
                         \o <<"\n", "\n", "---", " ">> \o run.name \o <<" ", "---", "\n">> \o t
                   /\ file_list = run.before.files \o <<run.name>>
C16_Witness ==
    /\ u_last # <<>> /\ u_last[1].text # <<>> /\ u_last[1].failed
    /\ Len(file_list) = 2 /\ u_last[1].name = <<"scan", ".", "PNG">>

\* the tag in a generated text: where it first stands, whether it stands
\* there in bold markup, and the text on either side of it
HasMarker(t) == \E i \in 1..Len(t) : t[i] = "SEARCH_QUERY:"
FirstMarker(t) ==
    CHOOSE i \in 1..Len(t) : t[i] = "SEARCH_QUERY:" /\ \A j \in 1..(i - 1) : t[j] # "SEARCH_QUERY:"
BoldAt(t, i) == i > 1 /\ i < Len(t) /\ t[i - 1] = "**" /\ t[i + 1] = "**"
BeforeMarker(t) ==
    LET i == FirstMarker(t) IN SubSeq(t, 1, IF BoldAt(t, i) THEN i - 2 ELSE i - 1)
AfterMarker(t) ==
    LET i == FirstMarker(t) IN SubSeq(t, (IF BoldAt(t, i) THEN i + 2 ELSE i + 1), Len(t))
UpToNextMarker(t) == IF HasMarker(t) THEN BeforeMarker(t) ELSE t

\* C19 as stated: when the generated text has the tag, plain or bold, the
\* explanation is the text before the first tag and the search topic is the
\* text after the first tag (surrounding whitespace aside); when it has no
\* tag the explanation is the whole text and the topic is "Computer Science
\* Core".
C19_MarkerParsing ==
    p_pc = "parsed" =>
        IF HasMarker(p_text)
        THEN /\ p_summary = Strip(BeforeMarker(p_text))
             /\ p_topic = Strip(AfterMarker(p_text))
        ELSE /\ p_summary = p_text
             /\ p_topic = <<"Computer", " ", "Science", " ", "Core">>

\* C19 amended: as stated, except that the search topic is the text between
\* the first tag and the next tag, or the end of the text when there is no
\* other tag, with surrounding whitespace removed; the explanation is the
\* text before the first tag with surrounding whitespace removed.
C19_MarkerParsingFirstSegment ==
    p_pc = "parsed" =>
        IF HasMarker(p_text)
        THEN /\ p_summary = Strip(BeforeMarker(p_text))
             /\ p_topic = Strip(UpToNextMarker(AfterMarker(p_text)))
        ELSE /\ p_summary = p_text
             /\ p_topic = <<"Computer", " ", "Science", " ", "Core">>
C19_Witness ==
    /\ p_pc = "parsed"
    /\ p_text = <<"Modules", "SEARCH_QUERY:", "Modules", "SEARCH_QUERY:", "**">>
    /\ p_topic = <<"Modules">>

\* C20: every prompt built from the context holds the characters of the
\* context from index 0 up to an index that is at most the length of the
\* context and at most 20000 for the summarize prompt, 5000 for the quiz
\* prompt, 10000 for the fallback prompt and 50000 for the prompt of
\* analyze_query; a context longer than the budget is never put in whole.
BudgetOf(site) ==
    CASE site = "summarize" -> 20000
      [] site = "quiz" -> 5000
      [] site = "fallback" -> 10000
      [] site = "analyze_query" -> 50000
C20_BoundedContext ==
    prompt_site # "" =>
        /\ prompt_ctx.start = 0
        /\ prompt_ctx.stop <= BudgetOf(prompt_site)
        /\ prompt_ctx.stop <= ctx_len
        /\ ctx_len <= BudgetOf(prompt_site) => prompt_ctx.stop = ctx_len
        /\ ctx_len > BudgetOf(prompt_site) => prompt_ctx.stop = BudgetOf(prompt_site)
C20_Witness ==
    /\ prompt_site = "fallback" /\ ctx_len = 10001 /\ prompt_ctx.stop = 10000

\* a step keeps the entries of a cache: each entry stays as it is, or is
\* TickStep older, or is gone because it reached 3600 s
EntriesKept(before, after) ==
    \A e \in before :
        \/ e \in after
        \/ [e EXCEPT !.age = e.age + TickStep] \in after
        \/ (e.age + TickStep >= 3600 /\ \A f \in after : f.key # e.key)

\* C21: every step of every interleaving of two sessions' requests leaves the
\* state of the process as it was, except that handlers and cache entries are
\* added and that entries age and expire: the configuration of the generation
\* library, once made, is not changed, no handler is removed, and no cache
\* entry is replaced or removed before it is 3600 s old.
C21_SharedState ==
    [][ /\ genai_key # <<>> => genai_key' = genai_key
        /\ handlers \subseteq handlers'
        /\ EntriesKept(videoCache, videoCache')
        /\ EntriesKept(webCache, webCache') ]_vars

RECURSIVE SumSeq(_)
SumSeq(q) == IF q = <<>> THEN 0 ELSE Head(q) + SumSeq(Tail(q))

\* C22: a request that has started reaches its end, and at every point of it
\* there were at most 2 generation operations, at most 6 calls of the backend
\* and at most 4 sleeps adding up to at most 30 s; more than one generation
\* operation, or more than 3 calls, happen only for a query that is neither
\* sentinel.
C22_RequestBudget ==
    /\ [](/\ b_ops <= 2 /\ b_calls <= 6
          /\ Len(b_waits) <= 4 /\ SumSeq(b_waits) <= 30
          /\ (b_ops > 1 \/ b_calls > 3 \/ Len(b_waits) > 2) =>
                (b_query # CMD_SUMMARIZE /\ b_query # CMD_QUIZ))
    /\ (b_pc # "idle") ~> (b_pc = "done")
C22_Witness ==
    /\ b_pc = "done" /\ b_ops = 2 /\ b_calls = 6
    /\ b_waits = <<5, 10, 5, 10>>

\* the two links handle_request makes for a topic when the web search gave
\* nothing (service.py:47-57)
FailSafeLinks(topic, articles) ==
    /\ Len(articles) = 2
    /\ articles = ensure_links(topic, <<>>)
    /\ articles[1].link = <<"https://www.khanacademy.org/search?page_search_query=">>
                             \o Quote(topic)
    /\ articles[2].link = <<"https://scholar.google.com/scholar?q=">> \o Quote(topic)
\* C23: for every call of cached_video_search or cached_web_search: a run of
\* the search whose provider raised returns the empty sequence and leaves it
\* in the cache under the call's key for the next 3600 s; a call for a key whose latest run
\* failed less than 3600 s before does not run the search and returns the
\* empty sequence, from which ensure_links makes the two fail-safe links of
\* the topic; 3600 s after the failed run or later the search runs again.
C23_FailureCached ==
    c_call # <<>> =>
        LET call == c_call[1]
            cache == IF call.fn = "cached_web_search" THEN webCache ELSE videoCache
            topic == IF call.fn = "cached_web_search" THEN call.key[1] ELSE call.key
        IN
        /\ call.failed =>
              /\ call.ran /\ call.value = <<>>
              /\ c_now - call.at < 3600 =>
                    \E e \in cache : /\ e.key = call.key /\ e.value = <<>>
                                     /\ e.age = c_now - call.at
        /\ (call.prev # <<>> /\ call.prev[1].failed) =>
              IF call.at - call.prev[1].at < 3600
              THEN /\ ~call.ran /\ call.value = <<>>
                   /\ FailSafeLinks(topic, ensure_links(topic, call.value))
              ELSE call.ran
C23_Witness ==
    /\ c_call # <<>> /\ c_call[1].fn = "cached_web_search"
    /\ c_call[1].prev # <<>> /\ c_call[1].prev[1].failed
    /\ c_call[1].at = c_call[1].prev[1].at + TickStep
    /\ ~c_call[1].ran /\ c_call[1].value = <<>>

CallsFor(i) == {j \in 1..Len(m_calls) : m_calls[j].msg = i}
\* C24: the history alternates between user and assistant messages, starting
\* with a user message; handle_request was called exactly once for every
\* user message that is not the last message, and at most once for the last;
\* every assistant message follows a user message and carries the result of
\* the call made for it.
C24_Conversation ==
    /\ \A i \in 1..Len(messages) :
          messages[i].role = (IF i % 2 = 1 THEN "user" ELSE "assistant")
    /\ \A i \in 1..Len(messages) :
          messages[i].role = "user" =>
              /\ Cardinality(CallsFor(i)) <= 1
              /\ i < Len(messages) => Cardinality(CallsFor(i)) = 1
    /\ \A i \in 1..Len(messages) :
          messages[i].role = "assistant" =>
              /\ i > 1
              /\ \E j \in CallsFor(i - 1) : m_calls[j].result = messages[i].data

RECURSIVE Sections(_, _)
Sections(names, texts) ==
    IF names = <<>> THEN <<>>
    ELSE Section(Head(names), Head(texts)) \o Sections(Tail(names), Tail(texts))
ParseValues ==
    {parse_file(name, key, lib) : name \in FileNames, key \in ApiKeys, lib \in Extractions}
\* C25: file_list never holds a name twice, and context_cache is one section
\* per name of file_list, in the order of the list; a run with a file whose
\* name is listed does not call process_file, a run with a file whose name is
\* not listed does, so a file whose extraction failed stays unlisted and is
\* extracted again by the next run that finds it in the uploader; after
\* Clear Memory file_list and context_cache are empty.
C25_FileIndex ==
    /\ \A i, j \in 1..Len(file_list) : file_list[i] = file_list[j] => i = j
    /\ \E texts \in [1..Len(file_list) -> ParseValues] :
          context_cache = Sections(file_list, texts)
    /\ u_last = <<>> => (file_list = <<>> /\ context_cache = <<>>)
    /\ u_last # <<>> =>
          LET run == u_last[1]
              listed == \E i \in 1..Len(run.before.files) : run.before.files[i] = run.name
          IN /\ listed <=> run.text = <<>>
             /\ run.failed =>
                   /\ run.text # <<>>
                   /\ \A i \in 1..Len(file_list) : file_list[i] # run.name
             /\ (run.before.last # <<>> /\ run.before.last[1].failed
                   /\ run.before.last[1].name = run.name) => run.text # <<>>
C25_Witness ==
    /\ u_last # <<>> /\ u_last[1].before.last # <<>>
    /\ u_last[1].before.last[1].failed
    /\ u_last[1].before.last[1].name = u_last[1].name
    /\ ~u_last[1].failed /\ file_list = <<<<"notes", ".", "pdf">>, u_last[1].name>>
    /\ Len(context_cache) > Len(Section(file_list[1], <<>>)) + Len(Section(file_list[2], <<>>))

====
